---- MODULE Spec2Model ----
(***************************************************************************)
(* Model of Graph<T> (src/lib.rs): a dense vector of node payloads and a   *)
(* parallel vector of outgoing edge lists holding 0-based target indices.  *)
(* Rust vectors are modelled as TLA+ sequences, so the element at Rust     *)
(* index i is s[i + 1]; every index stored in an edge list, passed to an   *)
(* operation or returned by one is the 0-based Rust value.                 *)
(***************************************************************************)
EXTENDS Integers, Sequences, FiniteSets

\* Largest node count the model builds.
MaxNodes == 3
\* Largest total number of stored edge entries the model builds.
MaxEdges == 3

\* Node payloads (the generic T); two values so that order is observable.
Payloads == {1, 2}
\* usize arguments tried by the callers: every valid index and one past.
Indices == 0..MaxNodes

VARIABLES
    nodes,    \* Graph::nodes
    edges,    \* Graph::edges
    op,       \* the last call: its name, its arguments and what it returned
    pnodes,   \* Graph::nodes as it was when the last call started
    pedges,   \* Graph::edges as it was when the last call started
    drain,    \* the current run of consecutive pop calls: the node sequence
              \* it started from, the payloads it returned, its length
    log,      \* the calls made so far, while they are add_node / successful
              \* add_edge calls optionally ended by one remove_node
    tracked   \* TRUE while log is the complete call history

vars == <<nodes, edges, op, pnodes, pedges, drain, log, tracked>>

----------------------------------------------------------------------------
(* Vec primitives *)

\* Vec::remove(idx): the elements after idx shift left by one.
VecRemove(v, idx) == SubSeq(v, 1, idx) \o SubSeq(v, idx + 2, Len(v))

\* (variant: the edge is stored in the target's list)
PushAt_Reversed(es, from, to) == [es EXCEPT ![to + 1] = Append(@, from)]

\* Vec::push on the inner vector edges[from].
PushAt(es, from, to) == [es EXCEPT ![from + 1] = Append(@, to)]

\* Total number of stored edge entries.
RECURSIVE EdgeCount(_)
EdgeCount(es) == IF es = <<>> THEN 0 ELSE Len(Head(es)) + EdgeCount(Tail(es))

----------------------------------------------------------------------------
(* Graph::new *)
new == [nodes |-> <<>>, edges |-> <<>>]

(* Graph::add_node *)
\* (variant: the node and its edge list are inserted at the front)
add_node_Front(ns, es, node) ==
    [nodes |-> <<node>> \o ns,
     edges |-> <<<<>>>> \o es,
     res   |-> [kind |-> "usize", val |-> Len(ns)]]

add_node(ns, es, node) ==
    [nodes |-> Append(ns, node),
     edges |-> Append(es, <<>>),
     res   |-> [kind |-> "usize", val |-> Len(ns)]]

(* Graph::add_edge *)
ErrTo(es, to) ==
    [type |-> "EdgeAdditionError",
     text |-> "parameter to out of range, to: {}, length: {}",
     args |-> <<to, Len(es)>>]

ErrFrom(es, from) ==
    [type |-> "EdgeAdditionError",
     text |-> "parameter from out of range, from: {}, length: {}",
     args |-> <<from, Len(es)>>]

ErrSelf ==
    [type |-> "EdgeAdditionError",
     text |-> "Node cannot point to itself",
     args |-> <<>>]

\* (variant: from is validated before to)
add_edge_FromFirst(ns, es, from, to) ==
    IF from >= Len(ns)
    THEN [nodes |-> ns, edges |-> es, res |-> [kind |-> "Err", val |-> ErrFrom(es, from)]]
    ELSE IF to >= Len(ns)
    THEN [nodes |-> ns, edges |-> es, res |-> [kind |-> "Err", val |-> ErrTo(es, to)]]
    ELSE IF from = to
    THEN [nodes |-> ns, edges |-> es, res |-> [kind |-> "Err", val |-> ErrSelf]]
    ELSE [nodes |-> ns, edges |-> PushAt(es, from, to),
          res |-> [kind |-> "Ok", val |-> <<>>]]

\* (variant: the policy that permits self-loops)
add_edge_AllowSelf(ns, es, from, to) ==
    IF to >= Len(ns)
    THEN [nodes |-> ns, edges |-> es, res |-> [kind |-> "Err", val |-> ErrTo(es, to)]]
    ELSE IF from >= Len(ns)
    THEN [nodes |-> ns, edges |-> es, res |-> [kind |-> "Err", val |-> ErrFrom(es, from)]]
    ELSE [nodes |-> ns, edges |-> PushAt(es, from, to),
          res |-> [kind |-> "Ok", val |-> <<>>]]

add_edge(ns, es, from, to) ==
    IF to >= Len(ns)
    THEN [nodes |-> ns, edges |-> es, res |-> [kind |-> "Err", val |-> ErrTo(es, to)]]
    ELSE IF from >= Len(ns)
    THEN [nodes |-> ns, edges |-> es, res |-> [kind |-> "Err", val |-> ErrFrom(es, from)]]
    ELSE IF from = to
    THEN [nodes |-> ns, edges |-> es, res |-> [kind |-> "Err", val |-> ErrSelf]]
    ELSE [nodes |-> ns, edges |-> PushAt(es, from, to),
          res |-> [kind |-> "Ok", val |-> <<>>]]

(* Graph::get_edges_from / get_edges_to / get_edges *)
ErrGet(es, idx) ==
    [type |-> "EdgeGetError",
     text |-> "index is out of bounds: index: {}, length: {}",
     args |-> <<idx, Len(es)>>]

\* (variant: an index out of range yields an empty list instead of an error)
get_edges_from_Default(ns, es, idx) ==
    IF idx >= Len(ns)
    THEN [kind |-> "Ok", val |-> <<>>]
    ELSE [kind |-> "Ok", val |-> es[idx + 1]]

get_edges_from(ns, es, idx) ==
    IF idx >= Len(ns)
    THEN [kind |-> "Err", val |-> ErrGet(es, idx)]
    ELSE [kind |-> "Ok", val |-> es[idx + 1]]

\* (variant: a source is collected once however often it points at idx)
ScanEdgeData_Once(acc, edge_data, edge_idx, idx) ==
    IF \E p \in 1..Len(edge_data) : edge_data[p] = idx
    THEN Append(acc, edge_idx)
    ELSE acc

\* The inner loop of get_edges_to: one push of edge_idx per entry equal to idx.
RECURSIVE ScanEdgeData(_, _, _, _)
ScanEdgeData(acc, edge_data, edge_idx, idx) ==
    IF edge_data = <<>> THEN acc
    ELSE ScanEdgeData(IF Head(edge_data) = idx THEN Append(acc, edge_idx) ELSE acc,
                      Tail(edge_data), edge_idx, idx)

\* The outer loop of get_edges_to: self.edges.iter().enumerate() from edge_idx on.
RECURSIVE ScanEdges(_, _, _, _)
ScanEdges(acc, es, edge_idx, idx) ==
    IF edge_idx >= Len(es) THEN acc
    ELSE ScanEdges(ScanEdgeData(acc, es[edge_idx + 1], edge_idx, idx),
                   es, edge_idx + 1, idx)

get_edges_to(ns, es, idx) ==
    IF idx >= Len(ns)
    THEN [kind |-> "Err", val |-> ErrGet(es, idx)]
    ELSE [kind |-> "Ok", val |-> ScanEdges(<<>>, es, 0, idx)]

\* (variant: the incoming sources are placed before the outgoing targets)
get_edges_ToFirst(ns, es, idx) ==
    IF idx >= Len(ns)
    THEN [kind |-> "Err", val |-> ErrGet(es, idx)]
    ELSE LET f == get_edges_from(ns, es, idx)
             t == get_edges_to(ns, es, idx)
         IN  IF f.kind = "Err" THEN f
             ELSE IF t.kind = "Err" THEN t
             ELSE [kind |-> "Ok", val |-> t.val \o f.val]

get_edges(ns, es, idx) ==
    IF idx >= Len(ns)
    THEN [kind |-> "Err", val |-> ErrGet(es, idx)]
    ELSE LET f == get_edges_from(ns, es, idx)
             t == get_edges_to(ns, es, idx)
         IN  IF f.kind = "Err" THEN f
             ELSE IF t.kind = "Err" THEN t
             ELSE [kind |-> "Ok", val |-> f.val \o t.val]

(* Graph::remove_node *)
\* (variant: the filter also drops the entries above idx)
KeepEdge_DropAbove(edge, idx) == edge < idx

\* (variant: the filter lets every entry through)
KeepEdge_KeepAll(edge, idx) == TRUE

\* filter_map(|&edge| if edge != idx { Some(edge) } else { None })
KeepEdge(edge, idx) == edge /= idx

\* (variant: the entry just above idx is not shifted)
ShiftEdge_OffByOne(edge, idx) == IF edge > idx + 1 THEN edge - 1 ELSE edge

\* (variant: the shift is forgotten)
ShiftEdge_NoShift(edge, idx) == edge

\* map(|edge| if edge > idx { edge - 1 } else { edge })
ShiftEdge(edge, idx) == IF edge > idx THEN edge - 1 ELSE edge

\* The iterator chain that rebuilds one edge list.
RECURSIVE RewriteEdgeData(_, _)
RewriteEdgeData(edge_data, idx) ==
    IF edge_data = <<>> THEN <<>>
    ELSE IF KeepEdge(Head(edge_data), idx)
         THEN <<ShiftEdge(Head(edge_data), idx)>> \o RewriteEdgeData(Tail(edge_data), idx)
         ELSE RewriteEdgeData(Tail(edge_data), idx)

\* (variant: the only edge lists rebuilt are those below the removed one)
RewriteEdges_BelowOnly(es, idx) ==
    [i \in 1..Len(es) |-> IF i <= idx THEN RewriteEdgeData(es[i], idx) ELSE es[i]]

\* for edge_data in self.edges.iter_mut() { *edge_data = ... }
RewriteEdges(es, idx) == [i \in 1..Len(es) |-> RewriteEdgeData(es[i], idx)]

PanicMsg(ns, idx) ==
    [type |-> "panic",
     text |-> "index index out of range: index is {}, but len is {}",
     args |-> <<idx, Len(ns)>>]

\* (variant: an index past the end is clamped to the last node)
remove_node_Clamp(ns, es, idx) ==
    IF ns = <<>>
    THEN [nodes |-> ns, edges |-> es,
          res |-> [kind |-> "Panic", val |-> PanicMsg(ns, idx)]]
    ELSE LET at == IF idx >= Len(ns) THEN Len(ns) - 1 ELSE idx
         IN  [nodes |-> VecRemove(ns, at),
              edges |-> RewriteEdges(VecRemove(es, at), at),
              res   |-> [kind |-> "T", val |-> ns[at + 1]]]

\* (variant: the payload is taken out with Vec::swap_remove)
remove_node_SwapRemove(ns, es, idx) ==
    IF idx >= Len(ns)
    THEN [nodes |-> ns, edges |-> es,
          res |-> [kind |-> "Panic", val |-> PanicMsg(ns, idx)]]
    ELSE [nodes |-> IF idx = Len(ns) - 1
                    THEN SubSeq(ns, 1, idx)
                    ELSE SubSeq([ns EXCEPT ![idx + 1] = ns[Len(ns)]], 1, Len(ns) - 1),
          edges |-> RewriteEdges(VecRemove(es, idx), idx),
          res   |-> [kind |-> "T", val |-> ns[idx + 1]]]

remove_node(ns, es, idx) ==
    IF idx >= Len(ns)
    THEN [nodes |-> ns, edges |-> es,
          res |-> [kind |-> "Panic", val |-> PanicMsg(ns, idx)]]
    ELSE [nodes |-> VecRemove(ns, idx),
          edges |-> RewriteEdges(VecRemove(es, idx), idx),
          res   |-> [kind |-> "T", val |-> ns[idx + 1]]]

(* Graph::pop *)
\* (variant: the first node is removed instead of the last)
pop_First(ns, es) ==
    IF ns = <<>>
    THEN [nodes |-> ns, edges |-> es, res |-> [kind |-> "None", val |-> <<>>]]
    ELSE LET r == remove_node(ns, es, 0)
         IN  [nodes |-> r.nodes, edges |-> r.edges,
              res |-> [kind |-> "Some", val |-> r.res.val]]

\* (variant: both vectors are shortened with Vec::pop, the edge lists are kept)
pop_VecPop(ns, es) ==
    IF ns = <<>>
    THEN [nodes |-> ns, edges |-> es, res |-> [kind |-> "None", val |-> <<>>]]
    ELSE [nodes |-> SubSeq(ns, 1, Len(ns) - 1),
          edges |-> SubSeq(es, 1, Len(es) - 1),
          res |-> [kind |-> "Some", val |-> ns[Len(ns)]]]

pop(ns, es) ==
    IF ns = <<>>
    THEN [nodes |-> ns, edges |-> es, res |-> [kind |-> "None", val |-> <<>>]]
    ELSE LET r == remove_node(ns, es, Len(ns) - 1)
         IN  [nodes |-> r.nodes, edges |-> r.edges,
              res |-> IF r.res.kind = "T"
                      THEN [kind |-> "Some", val |-> r.res.val]
                      ELSE r.res]

(* impl Display for Graph<T> *)
\* (variant: the line shows the target index instead of the target's payload)
WriteLine_Index(ns, node, target) ==
    [text |-> "{} -> {}\n", args |-> <<node, target>>]

\* writeln!(f, "{} -> {}", node, self.nodes[*target])
WriteLine(ns, node, target) ==
    [text |-> "{} -> {}\n", args |-> <<node, ns[target + 1]>>]

\* self.nodes[*target] with a target that is not an index of nodes.
IndexPanic(ns, target) ==
    [type |-> "panic",
     text |-> "index out of bounds: the len is {} but the index is {}",
     args |-> <<Len(ns), target>>]

\* for target in targets.iter() { writeln!(...)?; }
RECURSIVE FmtTargets(_, _, _, _)
FmtTargets(out, ns, node, targets) ==
    IF out.kind /= "Ok" \/ targets = <<>> THEN out
    ELSE IF Head(targets) >= Len(ns)
    THEN [kind |-> "Panic", val |-> IndexPanic(ns, Head(targets))]
    ELSE FmtTargets([kind |-> "Ok",
                     val |-> Append(out.val, WriteLine(ns, node, Head(targets)))],
                    ns, node, Tail(targets))

\* for (node, targets) in self.nodes.iter().zip(self.edges.iter()), from
\* position i on; zip ends with the shorter of the two.
RECURSIVE FmtZip(_, _, _, _)
FmtZip(out, ns, es, i) ==
    IF out.kind /= "Ok" \/ i >= Len(ns) \/ i >= Len(es) THEN out
    ELSE FmtZip(FmtTargets(out, ns, ns[i + 1], es[i + 1]), ns, es, i + 1)

\* The text written to the formatter, as its sequence of lines.
fmt(ns, es) == FmtZip([kind |-> "Ok", val |-> <<>>], ns, es, 0)

----------------------------------------------------------------------------
(* The call history kept for replay *)

\* No run of pop calls is under way.
NoDrain == [from |-> <<>>, got |-> <<>>, calls |-> 0]
\* The number of consecutive pop calls is counted up to this value.
PopCap == MaxNodes + 2

IsBuild(l) == \A i \in 1..Len(l) : l[i].c \in {"add_node", "add_edge"}

----------------------------------------------------------------------------
(* The state machine: one action per public operation *)

Init ==
    /\ nodes = new.nodes
    /\ edges = new.edges
    /\ op = [name |-> "new", args |-> <<>>, res |-> [kind |-> "Ok", val |-> <<>>]]
    /\ pnodes = <<>>
    /\ pedges = <<>>
    /\ drain = NoDrain
    /\ log = <<>>
    /\ tracked = TRUE

\* What every call records about the state it started from.
Called(name, args, r) ==
    /\ op' = [name |-> name, args |-> args, res |-> r]
    /\ pnodes' = nodes
    /\ pedges' = edges
    /\ drain' = IF name /= "pop" THEN NoDrain
                ELSE [from  |-> IF op.name = "pop" THEN drain.from ELSE nodes,
                      got   |-> (IF op.name = "pop" THEN drain.got ELSE <<>>)
                                    \o (IF r.kind = "Some" THEN <<r.val>> ELSE <<>>),
                      calls |-> IF op.name /= "pop" THEN 1
                                ELSE IF drain.calls < PopCap THEN drain.calls + 1
                                ELSE PopCap]

Untrack ==
    /\ log' = <<>>
    /\ tracked' = FALSE

CallAddNode ==
    \E node \in Payloads :
        /\ Len(nodes) < MaxNodes
        /\ LET r == add_node(nodes, edges, node) IN
            /\ nodes' = r.nodes
            /\ edges' = r.edges
            /\ Called("add_node", <<node>>, r.res)
        /\ IF tracked /\ IsBuild(log)
           THEN /\ log' = Append(log, [c |-> "add_node", a |-> <<node>>])
                /\ tracked' = TRUE
           ELSE Untrack

CallAddEdge ==
    \E from \in Indices, to \in Indices :
        LET r == add_edge(nodes, edges, from, to) IN
            /\ r.res.kind = "Ok" => EdgeCount(edges) < MaxEdges
            /\ nodes' = r.nodes
            /\ edges' = r.edges
            /\ Called("add_edge", <<from, to>>, r.res)
            /\ IF tracked /\ IsBuild(log) /\ r.res.kind = "Ok"
               THEN /\ log' = Append(log, [c |-> "add_edge", a |-> <<from, to>>])
                    /\ tracked' = TRUE
               ELSE Untrack

CallGetEdgesFrom ==
    \E idx \in Indices :
        /\ Called("get_edges_from", <<idx>>, get_edges_from(nodes, edges, idx))
        /\ UNCHANGED <<nodes, edges>>
        /\ Untrack

CallGetEdgesTo ==
    \E idx \in Indices :
        /\ Called("get_edges_to", <<idx>>, get_edges_to(nodes, edges, idx))
        /\ UNCHANGED <<nodes, edges>>
        /\ Untrack

CallGetEdges ==
    \E idx \in Indices :
        /\ Called("get_edges", <<idx>>, get_edges(nodes, edges, idx))
        /\ UNCHANGED <<nodes, edges>>
        /\ Untrack

CallRemoveNode ==
    \E idx \in Indices :
        LET r == remove_node(nodes, edges, idx) IN
            /\ nodes' = r.nodes
            /\ edges' = r.edges
            /\ Called("remove_node", <<idx>>, r.res)
            /\ IF tracked /\ IsBuild(log) /\ r.res.kind = "T"
               THEN /\ log' = Append(log, [c |-> "remove_node", a |-> <<idx>>])
                    /\ tracked' = TRUE
               ELSE Untrack

CallPop ==
    LET r == pop(nodes, edges) IN
        /\ nodes' = r.nodes
        /\ edges' = r.edges
        /\ Called("pop", <<>>, r.res)
        /\ Untrack

CallFmt ==
    /\ Called("fmt", <<>>, fmt(nodes, edges))
    /\ UNCHANGED <<nodes, edges>>
    /\ Untrack

Next ==
    \/ CallAddNode
    \/ CallAddEdge
    \/ CallGetEdgesFrom
    \/ CallGetEdgesTo
    \/ CallGetEdges
    \/ CallRemoveNode
    \/ CallPop
    \/ CallFmt

Spec == Init /\ [][Next]_vars

----------------------------------------------------------------------------
(* Vocabulary of the properties *)

\* The last call was `name` and it ran to its normal return.
Removed == op.name = "remove_node" /\ op.res.kind = "T"
\* The index removed by the last remove_node.
RemovedIdx == op.args[1]
\* Where the node that was at 0-based index i before a removal of k is now.
NewIndex(i, k) == IF i < k THEN i ELSE i - 1
\* Number of entries of the sequence s equal to v.
Occurrences(s, v) == Cardinality({p \in 1..Len(s) : s[p] = v})

----------------------------------------------------------------------------
\* C1: in every reachable state the node sequence and the edge-list sequence
\* have the same length and every entry of every edge list is strictly less
\* than the current node count.
C1_IndexIntegrity ==
    /\ Len(nodes) = Len(edges)
    /\ \A i \in 1..Len(edges) : \A p \in 1..Len(edges[i]) :
           edges[i][p] \in 0..(Len(nodes) - 1)

\* A removal below the top has just renumbered a surviving edge.
C1_Witness ==
    /\ Removed
    /\ RemovedIdx < Len(nodes)
    /\ \E i \in 1..Len(pedges) : \E p \in 1..Len(pedges[i]) :
           pedges[i][p] > RemovedIdx
    /\ EdgeCount(edges) > 0

----------------------------------------------------------------------------
\* C2: after remove_node(k) the edge list of every surviving original node i
\* is at position i (i < k) or i - 1 (i > k) and is the original edges[i]
\* with the entries equal to k deleted, the entries greater than k decreased
\* by one, the entries less than k unchanged and the order of the survivors
\* preserved; the original edges[k] is gone.
C2_RemovalRenumbersEdges ==
    Removed =>
        LET k == RemovedIdx IN
        /\ Len(edges) = Len(pedges) - 1
        /\ \A i \in 0..(Len(pedges) - 1) :
               i /= k =>
                   LET old  == pedges[i + 1]
                       cur  == edges[NewIndex(i, k) + 1]
                       keep == {p \in 1..Len(old) : old[p] /= k}
                   IN  /\ Len(cur) = Cardinality(keep)
                       /\ \A p \in keep :
                              cur[Cardinality({q \in keep : q <= p})]
                                  = IF old[p] > k THEN old[p] - 1 ELSE old[p]

\* A middle node was removed from under a list that pointed at it and above it,
\* while a later node pointed below it.
C2_Witness ==
    /\ Removed
    /\ \E i \in 0..(Len(pedges) - 1) :
           /\ i < RemovedIdx
           /\ \E p, q \in 1..Len(pedges[i + 1]) :
                  /\ pedges[i + 1][p] = RemovedIdx
                  /\ pedges[i + 1][q] > RemovedIdx
    /\ \E i \in 0..(Len(pedges) - 1) :
           /\ i > RemovedIdx
           /\ \E p \in 1..Len(pedges[i + 1]) : pedges[i + 1][p] < RemovedIdx

\* C3: remove_node(k) with k < n returns the payload that was at k, leaves
\* n - 1 nodes, and the payload formerly at i is at i for i < k and at i - 1
\* for i > k.
C3_RemovalReturnsAndShiftsPayloads ==
    Removed =>
        LET k == RemovedIdx IN
        /\ op.res.val = pnodes[k + 1]
        /\ Len(nodes) = Len(pnodes) - 1
        /\ \A i \in 0..(Len(pnodes) - 1) :
               i /= k => nodes[NewIndex(i, k) + 1] = pnodes[i + 1]

\* The first of three nodes was removed and the two behind it differ.
C3_Witness ==
    /\ Removed
    /\ RemovedIdx = 0
    /\ Len(pnodes) = 3
    /\ pnodes[2] /= pnodes[3]
    /\ pnodes[1] /= pnodes[2]

----------------------------------------------------------------------------
(* Replaying a call history *)

\* Runs the add_node / add_edge calls of `calls` on the graph g; ok is FALSE
\* as soon as one of them is not a successful call.
RECURSIVE Replay(_, _)
Replay(g, calls) ==
    IF calls = <<>> THEN g
    ELSE LET call == Head(calls) IN
         IF call.c = "add_node"
         THEN LET r == add_node(g.nodes, g.edges, call.a[1])
              IN  Replay([nodes |-> r.nodes, edges |-> r.edges, ok |-> g.ok],
                         Tail(calls))
         ELSE IF call.c = "add_edge"
         THEN LET r == add_edge(g.nodes, g.edges, call.a[1], call.a[2])
              IN  Replay([nodes |-> r.nodes, edges |-> r.edges,
                          ok |-> g.ok /\ r.res.kind = "Ok"],
                         Tail(calls))
         ELSE [nodes |-> g.nodes, edges |-> g.edges, ok |-> FALSE]

\* The history `calls` without node k: the add_node that created node k
\* (the one made when `made` nodes existed, made = k) and every add_edge with
\* k as source or target are dropped, every other index above k is lowered.
RECURSIVE Omit(_, _, _)
Omit(calls, k, made) ==
    IF calls = <<>> THEN <<>>
    ELSE LET call == Head(calls)
             low(i) == IF i > k THEN i - 1 ELSE i
         IN  IF call.c = "add_node"
             THEN (IF made = k THEN <<>> ELSE <<call>>)
                      \o Omit(Tail(calls), k, made + 1)
             ELSE (IF call.a[1] = k \/ call.a[2] = k
                   THEN <<>>
                   ELSE <<[c |-> "add_edge", a |-> <<low(call.a[1]), low(call.a[2])>>]>>)
                      \o Omit(Tail(calls), k, made)

EmptyGraph == [nodes |-> new.nodes, edges |-> new.edges, ok |-> TRUE]
\* The history is add_node / successful add_edge calls and then one remove_node.
BuiltThenRemoved ==
    /\ tracked
    /\ log /= <<>>
    /\ log[Len(log)].c = "remove_node"
Built == SubSeq(log, 1, Len(log) - 1)

\* C4: for a graph built by add_node and successful add_edge calls only, the
\* state after remove_node(k) is the state reached by replaying the calls
\* without the add_node of node k, without the add_edge calls touching k, and
\* with every other index above k lowered by one.
C4_RemovalIsReplayWithoutNode ==
    BuiltThenRemoved =>
        LET g == Replay(EmptyGraph, Omit(Built, log[Len(log)].a[1], 0))
        IN  /\ g.ok
            /\ g.nodes = nodes
            /\ g.edges = edges

\* The history replays to the graph the removal started from, the removed
\* node had an edge in and an edge out, and an edge between survivors was
\* renumbered.
C4_Witness ==
    /\ BuiltThenRemoved
    /\ Removed
    /\ LET g == Replay(EmptyGraph, Built)
       IN  g.ok /\ g.nodes = pnodes /\ g.edges = pedges
    /\ \E i \in 1..Len(Built) :
           Built[i].c = "add_edge" /\ Built[i].a[1] = RemovedIdx
    /\ \E i \in 1..Len(Built) :
           Built[i].c = "add_edge" /\ Built[i].a[2] = RemovedIdx
    /\ \E i \in 1..Len(Built) :
           /\ Built[i].c = "add_edge"
           /\ Built[i].a[1] /= RemovedIdx
           /\ Built[i].a[2] > RemovedIdx

----------------------------------------------------------------------------
\* The last call left the node sequence and every edge list as they were.
GraphUnchanged == nodes = pnodes /\ edges = pedges
\* The node count when the last call started.
N == Len(pnodes)
Queries == {"get_edges_from", "get_edges_to", "get_edges"}

\* C5: add_edge(from, to) with from >= n or to >= n returns an
\* EdgeAdditionError, and get_edges_from, get_edges_to and get_edges with
\* idx >= n each return an EdgeGetError; in all these cases the graph is
\* unchanged and no edge data is returned.
C5_OutOfRangeIsRejected ==
    /\ (op.name = "add_edge" /\ (op.args[1] >= N \/ op.args[2] >= N)) =>
           /\ op.res.kind = "Err"
           /\ op.res.val.type = "EdgeAdditionError"
           /\ GraphUnchanged
    /\ (op.name \in Queries /\ op.args[1] >= N) =>
           /\ op.res.kind = "Err"
           /\ op.res.val.type = "EdgeGetError"
           /\ GraphUnchanged

\* A query was refused on a graph that has edges.
C5_Witness ==
    /\ op.name = "get_edges_from"
    /\ op.args[1] >= N
    /\ op.res.kind = "Err"
    /\ EdgeCount(pedges) > 0

\* C6: remove_node(idx) with idx >= n panics instead of returning a payload,
\* and neither the node sequence nor any edge list has been modified.
C6_RemoveOutOfRangePanics ==
    (op.name = "remove_node" /\ op.args[1] >= N) =>
        /\ op.res.kind = "Panic"
        /\ GraphUnchanged

\* remove_node panicked on a graph with nodes and edges.
C6_Witness ==
    /\ op.name = "remove_node"
    /\ op.args[1] >= N
    /\ op.res.kind = "Panic"
    /\ N > 0
    /\ EdgeCount(pedges) > 0

\* C7: add_edge(from, to) with from < n, to < n and from /= to succeeds and
\* appends exactly one entry `to` at the end of edges[from]; the node
\* sequence, every other edge list and the existing entries of edges[from]
\* are unchanged, also when edges[from] already contains `to`.
C7_AddEdgeAppendsOneEntry ==
    (/\ op.name = "add_edge"
     /\ op.args[1] < N
     /\ op.args[2] < N
     /\ op.args[1] /= op.args[2]) =>
        /\ op.res.kind = "Ok"
        /\ nodes = pnodes
        /\ Len(edges) = Len(pedges)
        /\ edges[op.args[1] + 1] = pedges[op.args[1] + 1] \o <<op.args[2]>>
        /\ \A i \in 1..Len(pedges) :
               i /= op.args[1] + 1 => edges[i] = pedges[i]

\* An edge that was already stored was added again, after another target.
C7_Witness ==
    /\ op.name = "add_edge"
    /\ op.res.kind = "Ok"
    /\ Len(pedges[op.args[1] + 1]) = 2
    /\ pedges[op.args[1] + 1][1] = op.args[2]
    /\ pedges[op.args[1] + 1][2] /= op.args[2]
    /\ Occurrences(edges[op.args[1] + 1], op.args[2]) = 2

\* C8: add_edge(i, i) with i < n fails with an EdgeAdditionError that differs
\* from the out-of-range errors and leaves the graph unchanged.
C8_SelfLoopIsRejected ==
    (op.name = "add_edge" /\ op.args[1] = op.args[2] /\ op.args[1] < N) =>
        /\ op.res.kind = "Err"
        /\ op.res.val.type = "EdgeAdditionError"
        /\ \A v \in Indices :
               /\ op.res.val /= ErrTo(pedges, v)
               /\ op.res.val /= ErrFrom(pedges, v)
        /\ op.res.val.text \notin {ErrTo(pedges, 0).text, ErrFrom(pedges, 0).text}
        /\ GraphUnchanged

\* A self-loop was refused on a node that has an outgoing edge.
C8_Witness ==
    /\ op.name = "add_edge"
    /\ op.args[1] = op.args[2]
    /\ op.args[1] < N
    /\ op.res.kind = "Err"
    /\ pedges[op.args[1] + 1] /= <<>>

\* C9: for a valid index i, get_edges(i) succeeds and its result is the
\* result of get_edges_from(i) followed by the result of get_edges_to(i).
C9_GetEdgesIsFromThenTo ==
    (op.name = "get_edges" /\ op.args[1] < N) =>
        /\ op.res.kind = "Ok"
        /\ get_edges_from(nodes, edges, op.args[1]).kind = "Ok"
        /\ get_edges_to(nodes, edges, op.args[1]).kind = "Ok"
        /\ op.res.val = get_edges_from(nodes, edges, op.args[1]).val
                            \o get_edges_to(nodes, edges, op.args[1]).val

\* get_edges was asked about a node with an outgoing edge to one node and an
\* incoming edge from another.
C9_Witness ==
    /\ op.name = "get_edges"
    /\ op.res.kind = "Ok"
    /\ Len(op.res.val) = 2
    /\ op.res.val[1] /= op.res.val[2]
    /\ edges[op.args[1] + 1] = <<op.res.val[1]>>

\* C10: for a valid index idx, get_edges_to(idx) returns source indices in
\* non-decreasing order, each source j as often as idx occurs in edges[j]
\* (so as many entries as there are stored entries equal to idx), and
\* get_edges_from(idx) returns exactly edges[idx].
C10_IncomingAndOutgoing ==
    /\ (op.name = "get_edges_to" /\ op.args[1] < N) =>
           /\ op.res.kind = "Ok"
           /\ \A p, q \in 1..Len(op.res.val) :
                  p <= q => op.res.val[p] <= op.res.val[q]
           /\ \A p \in 1..Len(op.res.val) : op.res.val[p] \in 0..(N - 1)
           /\ \A j \in 0..(N - 1) :
                  Occurrences(op.res.val, j) = Occurrences(edges[j + 1], op.args[1])
    /\ (op.name = "get_edges_from" /\ op.args[1] < N) =>
           /\ op.res.kind = "Ok"
           /\ op.res.val = edges[op.args[1] + 1]

\* get_edges_to found one source twice and a higher source once.
C10_Witness ==
    /\ op.name = "get_edges_to"
    /\ op.res.kind = "Ok"
    /\ Len(op.res.val) = 3
    /\ op.res.val[1] = op.res.val[2]
    /\ op.res.val[2] < op.res.val[3]

----------------------------------------------------------------------------
\* The smaller of two numbers.
Min(a, b) == IF a <= b THEN a ELSE b

\* C11: pop() on an empty graph returns absent and leaves the graph
\* unchanged; a run of consecutive pop() calls started on a graph with n
\* nodes returns a present payload exactly n times, the payloads in
\* descending index order, reaches the empty graph, and every later pop()
\* returns absent with the graph remaining empty.
C11_PopDrains ==
    op.name = "pop" =>
        LET n == Len(drain.from)
            m == Min(drain.calls, n)
        IN  /\ pnodes = <<>> =>
                   op.res.kind = "None" /\ nodes = <<>> /\ edges = <<>> /\ pedges = <<>>
            /\ pnodes /= <<>> => op.res.kind = "Some"
            /\ Len(drain.got) = m
            /\ \A j \in 1..m : drain.got[j] = drain.from[n - j + 1]
            /\ nodes = SubSeq(drain.from, 1, n - m)
            /\ Len(edges) = n - m
            /\ drain.calls > n => op.res.kind = "None"

\* A graph of three nodes was drained by three pops and then popped twice
\* more.
C11_Witness ==
    /\ op.name = "pop"
    /\ Len(drain.from) = 3
    /\ drain.from[1] /= drain.from[2]
    /\ drain.calls = 5
    /\ Len(drain.got) = 3
    /\ op.res.kind = "None"
    /\ nodes = <<>>

----------------------------------------------------------------------------
\* The entries of the sequence s that differ from v, in order.
Without(s, v) == SelectSeq(s, LAMBDA e : e /= v)

\* C12: on a non-empty graph with n nodes, pop() returns the same payload
\* and produces the same state as remove_node(n - 1), and no surviving edge
\* target is decremented: every remaining edge list is its previous value
\* with only the entries equal to n - 1 deleted.
C12_PopIsRemoveLast ==
    (op.name = "pop" /\ pnodes /= <<>>) =>
        LET r == remove_node(pnodes, pedges, N - 1)
        IN  /\ r.res.kind = "T"
            /\ op.res.kind = "Some"
            /\ op.res.val = r.res.val
            /\ nodes = r.nodes
            /\ edges = r.edges
            /\ Len(edges) = N - 1
            /\ \A i \in 1..(N - 1) : edges[i] = Without(pedges[i], N - 1)

\* pop removed a node that an edge list pointed at, next to another target.
C12_Witness ==
    /\ op.name = "pop"
    /\ op.res.kind = "Some"
    /\ \E i \in 1..(N - 1) :
           /\ \E p \in 1..Len(pedges[i]) : pedges[i][p] = N - 1
           /\ \E p \in 1..Len(pedges[i]) : pedges[i][p] /= N - 1
    /\ pedges[N] /= <<>>

\* C13: add_node(p) on a graph with n nodes always succeeds, returns n,
\* places p at index n with an empty edge list, and leaves the payload and
\* the edge list of every index below n unchanged.
C13_AddNodeAppends ==
    op.name = "add_node" =>
        /\ op.res.kind = "usize"
        /\ op.res.val = N
        /\ Len(nodes) = N + 1
        /\ Len(edges) = N + 1
        /\ nodes[N + 1] = op.args[1]
        /\ edges[N + 1] = <<>>
        /\ \A i \in 1..N : nodes[i] = pnodes[i] /\ edges[i] = pedges[i]

\* A node was added behind a different payload whose node has an edge.
C13_Witness ==
    /\ op.name = "add_node"
    /\ N >= 2
    /\ pnodes[1] /= op.args[1]
    /\ pedges[1] /= <<>>

----------------------------------------------------------------------------
\* Number of edge entries stored in the lists before the 1-based position i.
EntriesBefore(es, i) == EdgeCount(SubSeq(es, 1, i - 1))

\* C14: rendering a reachable graph completes without aborting and produces
\* exactly one line per stored edge entry, ordered by source index ascending
\* and within one source by insertion order of its targets; each line pairs
\* the payload at the source index with the payload at the target index.
C14_DisplayListsEveryEdge ==
    op.name = "fmt" =>
        /\ op.res.kind = "Ok"
        /\ Len(op.res.val) = EdgeCount(edges)
        /\ \A i \in 1..Len(edges) : \A p \in 1..Len(edges[i]) :
               LET line == op.res.val[EntriesBefore(edges, i) + p]
               IN  /\ line.text = "{} -> {}\n"
                   /\ line.args = <<nodes[i], nodes[edges[i][p] + 1]>>

\* A graph was rendered in which one source lists a higher target before a
\* lower one and a later source has an edge too.
C14_Witness ==
    /\ op.name = "fmt"
    /\ op.res.kind = "Ok"
    /\ Len(op.res.val) = 3
    /\ Len(edges[1]) = 2
    /\ edges[1][1] > edges[1][2]
    /\ nodes[edges[1][1] + 1] /= nodes[edges[1][2] + 1]
    /\ nodes[1] /= nodes[3]

----------------------------------------------------------------------------
\* Number of entries equal to v in all the edge lists of es.
RECURSIVE OccurrencesIn(_, _)
OccurrencesIn(es, v) ==
    IF es = <<>> THEN 0 ELSE Occurrences(Head(es), v) + OccurrencesIn(Tail(es), v)

\* The last call removed a node, by remove_node or by pop.
NodeTaken ==
    \/ Removed
    \/ op.name = "pop" /\ op.res.kind = "Some"
\* The index of the node the last call removed.
TakenIdx == IF op.name = "pop" THEN N - 1 ELSE RemovedIdx

\* C15: a successful add_edge raises the number of stored edge entries by
\* exactly one; add_node, every failing add_edge and every query leave it
\* unchanged; remove_node(k) (and pop, with k = n - 1) lowers it by the
\* number of entries in edges[k] plus the number of entries equal to k in
\* the other lists, so that no edge between two surviving nodes is dropped.
C15_EdgeCountChanges ==
    /\ (op.name = "add_edge" /\ op.res.kind = "Ok") =>
           EdgeCount(edges) = EdgeCount(pedges) + 1
    /\ (\/ op.name = "add_node"
        \/ op.name = "add_edge" /\ op.res.kind = "Err"
        \/ op.name \in Queries \cup {"fmt"}) =>
           EdgeCount(edges) = EdgeCount(pedges)
    /\ NodeTaken =>
           LET k == TakenIdx IN
           /\ EdgeCount(edges) = EdgeCount(pedges) - Len(pedges[k + 1])
                                     - (OccurrencesIn(pedges, k)
                                            - Occurrences(pedges[k + 1], k))
           /\ \A i \in 0..(N - 1) :
                  i /= k => Len(edges[NewIndex(i, k) + 1])
                                = Len(pedges[i + 1]) - Occurrences(pedges[i + 1], k)

\* A removal took an outgoing and an incoming edge of the removed node and
\* left an edge between two survivors, one of them above the removed node.
C15_Witness ==
    /\ Removed
    /\ pedges[RemovedIdx + 1] /= <<>>
    /\ OccurrencesIn(pedges, RemovedIdx) = 1
    /\ EdgeCount(pedges) = 3
    /\ EdgeCount(edges) = 1
    /\ \E i \in 1..Len(pedges) : \E p \in 1..Len(pedges[i]) :
           i - 1 /= RemovedIdx /\ pedges[i][p] > RemovedIdx

\* C16: add_edge reports the violated bound in a fixed order: if to >= n the
\* error is the 'to out of range' error whatever from is; otherwise if
\* from >= n it is the 'from out of range' error; only when both are in
\* range and from = to is it the self-loop error.
C16_AddEdgeErrorOrder ==
    op.name = "add_edge" =>
        LET from == op.args[1]
            to   == op.args[2]
        IN  /\ to >= N =>
                   op.res.kind = "Err" /\ op.res.val = ErrTo(pedges, to)
            /\ (to < N /\ from >= N) =>
                   op.res.kind = "Err" /\ op.res.val = ErrFrom(pedges, from)
            /\ (to < N /\ from < N /\ from = to) =>
                   op.res.kind = "Err" /\ op.res.val = ErrSelf
            /\ (op.res.kind = "Err" /\ op.res.val.text = ErrSelf.text) =>
                   to < N /\ from < N /\ from = to
            /\ (op.res.kind = "Err" /\ op.res.val.text = ErrFrom(pedges, from).text) =>
                   to < N /\ from >= N

\* add_edge was called with both indices out of range and different.
C16_Witness ==
    /\ op.name = "add_edge"
    /\ op.args[1] >= N
    /\ op.args[2] >= N
    /\ op.args[1] /= op.args[2]
    /\ N > 0
    /\ op.res.kind = "Err"
    /\ op.res.val.text = ErrTo(pedges, 0).text

\* C17: in every reachable state no edge list contains its own position:
\* add_edge never stores a self-loop and the renumbering done by remove_node
\* never turns an edge between two distinct surviving nodes into one.
C17_NoSelfLoop ==
    \A i \in 1..Len(edges) : \A p \in 1..Len(edges[i]) : edges[i][p] /= i - 1

\* A removal moved an edge list down by one and lowered a target in it.
C17_Witness ==
    /\ Removed
    /\ \E i \in 0..(N - 1) :
           /\ i > RemovedIdx
           /\ \E p \in 1..Len(pedges[i + 1]) : pedges[i + 1][p] > RemovedIdx

----------------------------------------------------------------------------
\* C18: removals of two distinct nodes commute up to renumbering: for
\* indices i < j < n, remove_node(j) followed by remove_node(i) yields the
\* same graph as remove_node(i) followed by remove_node(j - 1), and the two
\* orders return the same two payloads.  Here remove_node(j) is the call
\* that was just made and i ranges over the indices below j.
C18_RemovalsCommute ==
    Removed =>
        LET j == RemovedIdx IN
        \A i \in 0..(j - 1) :
            LET thenI == remove_node(nodes, edges, i)
                first == remove_node(pnodes, pedges, i)
                thenJ == remove_node(first.nodes, first.edges, j - 1)
            IN  /\ thenI.res.kind = "T"
                /\ first.res.kind = "T"
                /\ thenJ.res.kind = "T"
                /\ thenI.nodes = thenJ.nodes
                /\ thenI.edges = thenJ.edges
                /\ thenI.res.val = first.res.val
                /\ op.res.val = thenJ.res.val

\* The middle of three nodes was removed from a graph in which the two lower
\* nodes carry different payloads, the removed node has an edge in and an
\* edge out, and the first node points at the last.
C18_Witness ==
    /\ Removed
    /\ RemovedIdx = 1
    /\ N = 3
    /\ pnodes[1] /= pnodes[2]
    /\ pedges[2] /= <<>>
    /\ OccurrencesIn(pedges, 1) = 1
    /\ pedges[1] = <<2>>

====
